---- MODULE Spec2Model ----
(***************************************************************************)
(* Model of app/controllers/task.js: the task-add, task-delete,            *)
(* task-fetch, task-sync, task-respond and response-fetch handlers over    *)
(* the Sequelize store.                                                    *)
(*                                                                         *)
(* Every storage call of a handler is asynchronous.  One step of a request *)
(* is one storage call settling (the store executes it) together with the  *)
(* callback that runs on it, down to the next storage call; steps of       *)
(* different requests interleave freely.  A call whose promise nothing    *)
(* waits on (the three update() calls of task-respond, the eagerly called  *)
(* change-log create of task-delete) is pending beside the handler's       *)
(* chain: the store executes the pending calls of a request in any order,  *)
(* before or after the calls of the chain and before or after the reply.   *)
(* Sequelize stamps createdAt in the server process when create() is       *)
(* called; the row reaches the table when the store executes the insert.   *)
(* The clock only matters where a row is stamped, so it moves there.       *)
(*                                                                         *)
(* Spec is the handlers over a store whose calls all succeed; FaultSpec    *)
(* adds the steps in which a storage call is rejected; LogSpec is the      *)
(* task-add, task-delete and task-sync requests alone; RaceSpec is         *)
(* task-respond requests alone, racing on a task that exists; StaleSpec is *)
(* the same after one response whose caller has its answer and whose       *)
(* task.update the store has yet to execute; SeqSpec is task-add and       *)
(* task-respond requests each received once the one before has been       *)
(* answered; PollSpec adds a client that polls task-sync from the          *)
(* lastUpdated it last received.                                           *)
(***************************************************************************)
EXTENDS Integers, Sequences, FiniteSets, TLC

\* ---- bounds of the model ------------------------------------------------
MaxReq == 2       \* requests received in a run of Spec
MaxLogReq == 3    \* requests received in a run of LogSpec
MaxFaultReq == 2  \* requests received in a run of FaultSpec
MaxFaults == 1    \* storage calls rejected in a run of FaultSpec
MaxRacers == 2    \* task-respond requests received in a run of RaceSpec
MaxSeqReq == 3    \* requests received, one after another, in a run of SeqSpec
MaxPollReq == 2   \* requests received, besides the polls, in a run of PollSpec
MaxTasks == 1     \* tasks created in a run
MaxTime == 2      \* the clock's last value
MaxAnswers == 2   \* the largest answersLeft a task is created with

Users == {"u1", "u2"}
Clients == 1..MaxReq
FaultClients == 1..MaxFaultReq
LogClients == 1..MaxLogReq
Racers == 1..MaxRacers
\* In StaleSpec one task-respond has been received before the racers.
StaleClients == 1..(MaxRacers + 1)
SeqClients == 1..MaxSeqReq
PollClients == 1..MaxPollReq
Reqs == Clients \cup LogClients \cup FaultClients \cup Racers
          \cup StaleClients \cup SeqClients \cup PollClients
TaskIds == 1..MaxTasks
Times == 0..MaxTime
\* The users with a row in the User table: the callers, and one more who
\* calls in SeqSpec only.
ScenarioUsers == Users \cup {"u3"}
InitBalance == [u \in ScenarioUsers |-> 10]

\* A raw request parameter: a numeric string (num, with its value) or a
\* string parseFloat reads as NaN.
Num(v) == [num |-> TRUE, val |-> v]
NaN == [num |-> FALSE, val |-> 0]

\* The task-add bodies tried: ones that pass the handler's checks (their
\* answersLeft, which the handler does not check, from -1 up), one with a
\* negative cost, and one for each way the handler's checks can fail.
TaskAddBodies ==
  {[userId |-> u, cost |-> Num(1), lat |-> Num(1), lng |-> Num(1),
    answersLeft |-> a] : u \in Users, a \in (-1)..MaxAnswers}
  \cup
  {[userId |-> "u1", cost |-> x[1], lat |-> x[2], lng |-> x[3],
    answersLeft |-> 1] :
     x \in {<<Num(-1), Num(1), Num(1)>>,
            <<Num(0), Num(1), Num(1)>>, <<NaN, Num(1), Num(1)>>,
            <<Num(1), Num(0), Num(1)>>, <<Num(1), NaN, Num(1)>>,
            <<Num(1), Num(1), Num(0)>>, <<Num(1), Num(1), NaN>>}}

\* The task-add bodies of SeqSpec: u1 offers 5 a response.
ScenarioBodies ==
  {[userId |-> "u1", cost |-> Num(5), lat |-> Num(1), lng |-> Num(1),
    answersLeft |-> a] : a \in 1..MaxAnswers}

\* Lengths of the taskActionIds array tried.
ActionCounts == {0, 1}

VARIABLES
  balance,     \* User.balance column, per user
  tasks,       \* Task table, by id
  nextTaskId,  \* the Task table's autoincrement counter
  responses,   \* TaskResponse rows with their TaskActionResponses
  changelog,   \* ChangeLog rows in table order
  now,         \* the server clock, as last read
  faults,      \* storage calls rejected so far
  rq,          \* the requests: each handler's position and locals
  cursor,      \* the polling client: the lastUpdated it last received
  received     \* the polling client: the change-log rows it has got

vars ==
  <<balance, tasks, nextTaskId, responses, changelog, now, faults, rq,
    cursor, received>>

\* A Task row.  al0 is the answersLeft it was created with.
NoTask == [st |-> "none", owner |-> "-", cost |-> 0, al |-> 0, al0 |-> 0]

NoSync == [lastUpdated |-> 0, changes |-> <<>>]

\* No task-add body.
NoBody ==
  [userId |-> "-", cost |-> NaN, lat |-> NaN, lng |-> NaN, answersLeft |-> 0]

\* A request: the position of the handler's chain (pc), the calls it made
\* that nothing waits on and the store has yet to execute (pend), its
\* parameters (body, user, task,
\* since), its locals (uBal: req.user.balance; owner, oBal, cost, al: the
\* task findOne returned; ts: the createdAt stamped on its change-log row),
\* what it did (gate: it called the updates; hit: its destroy found a row;
\* failed: the storage call of its that was rejected) and what its caller
\* got (reply: the first answer; replies: how many; bal, found, sync: the
\* payload).
NoReq ==
  [kind |-> "none", pc |-> "idle", pend |-> {}, body |-> NoBody, user |-> "-", task |-> 0,
   since |-> 0, uBal |-> 0, oBal |-> 0, owner |-> "-",
   cost |-> 0, al |-> 0, ts |-> 0,
   gate |-> FALSE, hit |-> FALSE, failed |-> "-",
   reply |-> "none", replies |-> 0, bal |-> 0, found |-> {},
   sync |-> NoSync]

Gone == [NoReq EXCEPT !.kind = "gone"]

Init ==
  /\ balance = InitBalance
  /\ tasks = [t \in TaskIds |-> NoTask]
  /\ nextTaskId = 1
  /\ responses = {}
  /\ changelog = <<>>
  /\ now = 1
  /\ faults = 0
  /\ rq = [r \in Reqs |-> NoReq]
  /\ cursor = 0
  /\ received = {}

\* The clock is read when a row is stamped: it shows the time of the last
\* reading, or a later one.
clockRead(t) == {t} \cup (IF t < MaxTime THEN {t + 1} ELSE {})

\* The store rejects the call of request r that is due.
Rejects == faults < MaxFaults /\ faults' = faults + 1


\* next(err) or res.json/res.redirect: one more reply on the request.  The
\* caller's answer is the first one.
Replied(q, what) ==
  [q EXCEPT !.reply = IF q.replies = 0 THEN what ELSE q.reply,
            !.replies = q.replies + 1]

\* A request whose chain is over: its caller has its answer, or will never
\* have one.
Served(q) == q.pc = "end"

\* A request with nothing left to run: its record shows what it did and what
\* its caller saw, until the caller goes away.
Finished(q) == Served(q) /\ q.pend = {}

InFlight(q) == q.kind \notin {"none", "gone"} /\ ~Finished(q)

NoneFinished == \A r \in Reqs : ~Finished(rq[r])

\* No handler has anything left to run.
Quiescent == \A r \in Reqs : ~InFlight(rq[r])

\* No request is being served: every caller so far has its answer.  Calls
\* nothing waited on may still be pending.
Idle == \A r \in Reqs : rq[r].kind \in {"none", "gone"} \/ Served(rq[r])

\* A finished request's caller goes away before anything else happens: the
\* record of what it saw is in the state once, and not kept with the others'.
\* Requests arrive one after another: slot r is taken once slot r-1 is.
CanStart(r) ==
  /\ NoneFinished
  /\ rq[r].kind = "none"
  /\ IF r = 1 THEN TRUE ELSE rq[r - 1].kind # "none"

\* Request r, of this kind, waits on this storage call.
At(r, kind, pc) == NoneFinished /\ rq[r].kind = kind /\ rq[r].pc = pc

\* Request r, of this kind, has made this call, which nothing waits on and
\* the store has yet to execute.
Pending(r, kind, call) ==
  NoneFinished /\ rq[r].kind = kind /\ call \in rq[r].pend

\* ---- createChangeLogPromise ---------------------------------------------
\* A faulty variant: one row per task, rewritten on every change.
upsertChangeLog(log, taskId, status, createdAt) ==
  LET e == [taskId |-> taskId, status |-> status, createdAt |-> createdAt]
      old == {i \in 1..Len(log) : log[i].taskId = taskId} IN
  IF old = {} THEN Append(log, e)
  ELSE [i \in 1..Len(log) |-> IF i \in old THEN e ELSE log[i]]

\* db.ChangeLog.create({taskId, status}): one more row, stamped createdAt.
createChangeLogPromise(log, taskId, status, createdAt) ==
  Append(log, [taskId |-> taskId, status |-> status, createdAt |-> createdAt])

\* ---- POST task-add ------------------------------------------------------
\* !parseFloat(x): x is not a number, or is zero.
parseFloatFalsy(x) == ~x.num \/ x.val = 0

taskAddRejects(body) ==
  parseFloatFalsy(body.cost)
    \/ parseFloatFalsy(body.lat) \/ parseFloatFalsy(body.lng)

\* The row Task.create inserts.
newTask(userId, cost, answersLeft) ==
  [st |-> "live", owner |-> userId, cost |-> cost, al |-> answersLeft,
   al0 |-> answersLeft]

\* Task ids not yet handed out nor asked for by a task-add on its way.
TaskIdsLeft ==
  MaxTasks - (nextTaskId - 1)
    - Cardinality({r \in Reqs : rq[r].kind = "create"
                                  /\ rq[r].pc = "taskCreate"})

\* The handler runs on a body: its checks, then the call of Task.create.
TaskAdd(r, body) ==
  /\ CanStart(r)
  /\ IF taskAddRejects(body)
       THEN rq' = [rq EXCEPT ![r] =
              Replied([NoReq EXCEPT !.kind = "create", !.pc = "end",
                                    !.body = body],
                      "ValidationError")]
       ELSE /\ TaskIdsLeft > 0
            /\ rq' = [rq EXCEPT ![r] =
                 [NoReq EXCEPT !.kind = "create", !.pc = "taskCreate",
                               !.body = body,
                               !.user = body.userId, !.cost = body.cost.val,
                               !.al = body.answersLeft]]
  /\ UNCHANGED <<cursor, received, balance, tasks, nextTaskId, responses, changelog, now, faults>>

StartCreate(r) == \E body \in TaskAddBodies : TaskAdd(r, body)

\* Task.create resolves; its then calls createChangeLogPromise, which
\* stamps createdAt.
TaskCreateDone(r) ==
  /\ At(r, "create", "taskCreate")
  /\ tasks' = [tasks EXCEPT ![nextTaskId] =
                 newTask(rq[r].user, rq[r].cost, rq[r].al)]
  /\ nextTaskId' = nextTaskId + 1
  /\ \E t \in clockRead(now) :
       /\ now' = t
       /\ rq' = [rq EXCEPT ![r] =
            [@ EXCEPT !.pc = "logCreate", !.task = nextTaskId, !.ts = t]]
  /\ UNCHANGED <<cursor, received, balance, responses, changelog, faults>>

\* A faulty variant: after next(error) the handler goes on to log CREATED.
taskCreateCarriesOn(q, why) ==
  Replied([q EXCEPT !.pc = "logCreate", !.failed = why], "StorageError")

\* Task.create rejects: catch calls next(error); the following then reads
\* createdTask.id of undefined and throws, unhandled.
taskCreateRejected(q, why) ==
  Replied([q EXCEPT !.pc = "end", !.failed = why], "StorageError")

TaskCreateFails(r) ==
  /\ Rejects
  /\ At(r, "create", "taskCreate")
  /\ rq' = [rq EXCEPT ![r] = taskCreateRejected(@, "taskCreate")]
  /\ UNCHANGED <<cursor, received, balance, tasks, nextTaskId, responses, changelog, now>>

\* The CREATED change-log insert resolves: gcm.sendMessage is called.
CreateLogDone(r) ==
  /\ At(r, "create", "logCreate")
  /\ changelog' = createChangeLogPromise(changelog, rq[r].task, "CREATED",
                                         rq[r].ts)
  /\ rq' = [rq EXCEPT ![r].pc = "notify"]
  /\ UNCHANGED <<cursor, received, balance, tasks, nextTaskId, responses, now, faults>>

\* It rejects: catch calls next(error).
CreateLogFails(r) ==
  /\ Rejects
  /\ At(r, "create", "logCreate")
  /\ rq' = [rq EXCEPT ![r] =
       Replied([@ EXCEPT !.pc = "end", !.failed = "log"], "StorageError")]
  /\ UNCHANGED <<cursor, received, balance, tasks, nextTaskId, responses, changelog, now>>

\* gcm.sendMessage calls back: res.json.
CreateNotified(r) ==
  /\ At(r, "create", "notify")
  /\ rq' = [rq EXCEPT ![r] = Replied([@ EXCEPT !.pc = "end"], "ok")]
  /\ UNCHANGED <<cursor, received, balance, tasks, nextTaskId, responses, changelog, now, faults>>

\* ---- GET task-delete ----------------------------------------------------
\* Task.destroy({where: {id}}): the row goes, if there is one.
destroyTask(table, id) ==
  [table EXCEPT ![id] = IF @.st = "live"
                          THEN [@ EXCEPT !.st = "deleted", !.al = 0]
                          ELSE @]

\* The handler calls destroy and, while building the promise chain, calls
\* createChangeLogPromise at once: then() is handed its promise, not a
\* function, so the DELETED insert waits for nothing and nothing waits
\* for it.
StartDelete(r) ==
  \E id \in TaskIds, t \in clockRead(now) :
    /\ CanStart(r)
    /\ now' = t
    /\ rq' = [rq EXCEPT ![r] =
         [NoReq EXCEPT !.kind = "delete", !.pc = "destroy",
                       !.pend = {"logDelete"}, !.task = id, !.ts = t]]
    /\ UNCHANGED <<cursor, received, balance, tasks, nextTaskId, responses, changelog, faults>>

\* destroy resolves: res.redirect.
DestroyDone(r) ==
  /\ At(r, "delete", "destroy")
  /\ tasks' = destroyTask(tasks, rq[r].task)
  /\ rq' = [rq EXCEPT ![r] =
       Replied([@ EXCEPT !.pc = "end",
                         !.hit = tasks[rq[r].task].st = "live"], "ok")]
  /\ UNCHANGED <<cursor, received, balance, nextTaskId, responses, changelog, now, faults>>

\* destroy rejects: catch calls next(error).
DestroyFails(r) ==
  /\ Rejects
  /\ At(r, "delete", "destroy")
  /\ rq' = [rq EXCEPT ![r] =
       Replied([@ EXCEPT !.pc = "end", !.failed = "destroy"],
               "StorageError")]
  /\ UNCHANGED <<cursor, received, balance, tasks, nextTaskId, responses, changelog, now>>

\* The store executes the DELETED change-log insert, called before destroy
\* settled: nothing waits on it.
DeleteLogDone(r) ==
  /\ Pending(r, "delete", "logDelete")
  /\ changelog' = createChangeLogPromise(changelog, rq[r].task, "DELETED",
                                         rq[r].ts)
  /\ rq' = [rq EXCEPT ![r].pend = @ \ {"logDelete"}]
  /\ UNCHANGED <<cursor, received, balance, tasks, nextTaskId, responses, now, faults>>

\* It rejects, unhandled.
DeleteLogFails(r) ==
  /\ Rejects
  /\ Pending(r, "delete", "logDelete")
  /\ rq' = [rq EXCEPT ![r] =
       [@ EXCEPT !.pend = @ \ {"logDelete"},
                 !.failed = IF @ = "-" THEN "log" ELSE @]]
  /\ UNCHANGED <<cursor, received, balance, tasks, nextTaskId, responses, changelog, now>>

\* ---- GET task-fetch -----------------------------------------------------
\* Task.findAll({where: {id: ids}}): the ids that have a row.
findTasks(table, ids) == {id \in ids : table[id].st = "live"}

FetchTasks(r) ==
  \E ids \in SUBSET TaskIds :
    /\ CanStart(r)
    /\ rq' = [rq EXCEPT ![r] =
         Replied([NoReq EXCEPT !.kind = "fetch", !.pc = "end",
                               !.found = findTasks(tasks, ids)], "ok")]
    /\ UNCHANGED <<cursor, received, balance, tasks, nextTaskId, responses, changelog, now, faults>>

\* A read handler whose findAll rejects: next(error).
readFails(kind) ==
  Replied([NoReq EXCEPT !.kind = kind, !.pc = "end", !.failed = "find"],
          "StorageError")

FetchTasksFails(r) ==
  /\ Rejects
  /\ CanStart(r)
  /\ rq' = [rq EXCEPT ![r] = readFails("fetch")]
  /\ UNCHANGED <<cursor, received, balance, tasks, nextTaskId, responses, changelog, now>>

\* ---- GET task-sync ------------------------------------------------------
\* ChangeLog.findAll({where: {createdAt: {gt: since}}}): the matching rows,
\* in table order (the query names no order).
changesSince(log, since) ==
  SelectSeq(log, LAMBDA e : e.createdAt > since)

\* The places in the table of the rows findAll returns.
newerAt(log, since) == {i \in 1..Len(log) : log[i].createdAt > since}

\* A faulty variant: lastUpdated echoes the query when nothing is found.
syncReplyEcho(log, since) ==
  LET allChanges == changesSince(log, since) IN
  [lastUpdated |-> IF Len(allChanges) > 0
                     THEN allChanges[Len(allChanges)].createdAt
                     ELSE since,
   changes |-> [i \in 1..Len(allChanges) |->
                  [taskId |-> allChanges[i].taskId,
                   status |-> allChanges[i].status]]]

\* The body of the reply: lastUpdated starts at 0 and becomes the createdAt
\* of the last row found; changes are the rows' (taskId, status).
syncReply(log, since) ==
  LET allChanges == changesSince(log, since) IN
  IF Len(allChanges) > 0
    THEN [lastUpdated |-> allChanges[Len(allChanges)].createdAt,
          changes |-> [i \in 1..Len(allChanges) |->
                         [taskId |-> allChanges[i].taskId,
                          status |-> allChanges[i].status]]]
    ELSE [lastUpdated |-> 0, changes |-> <<>>]

Sync(r) ==
  \E since \in Times :
    /\ CanStart(r)
    /\ rq' = [rq EXCEPT ![r] =
         Replied([NoReq EXCEPT !.kind = "sync", !.pc = "end",
                               !.since = since,
                               !.sync = syncReply(changelog, since)], "ok")]
    /\ UNCHANGED <<cursor, received, balance, tasks, nextTaskId, responses, changelog, now, faults>>

SyncFails(r) ==
  /\ Rejects
  /\ CanStart(r)
  /\ rq' = [rq EXCEPT ![r] = readFails("sync")]
  /\ UNCHANGED <<cursor, received, balance, tasks, nextTaskId, responses, changelog, now>>

\* A client that keeps in step by polling: it calls task-sync with the
\* lastUpdated it last received (0 at first), takes the changes of the
\* reply and keeps the reply's lastUpdated for its next call.
Poll ==
  /\ NoneFinished
  /\ received' = received \cup newerAt(changelog, cursor)
  /\ cursor' = syncReply(changelog, cursor).lastUpdated
  /\ UNCHANGED <<balance, tasks, nextTaskId, responses, changelog, now,
                 faults, rq>>

\* ---- GET response-fetch -------------------------------------------------
\* TaskResponse.findAll({where: {taskId}}): the rows, named by their id.
findResponses(rows, taskId) == {x.id : x \in {y \in rows : y.task = taskId}}

FetchResponses(r) ==
  \E id \in TaskIds :
    /\ CanStart(r)
    /\ rq' = [rq EXCEPT ![r] =
         Replied([NoReq EXCEPT !.kind = "fetchResponses", !.pc = "end",
                               !.task = id,
                               !.found = findResponses(responses, id)], "ok")]
    /\ UNCHANGED <<cursor, received, balance, tasks, nextTaskId, responses, changelog, now, faults>>

\* findAll rejects: catch calls next(error), and the following then reads
\* fetchedResponses.length of undefined and throws, unhandled.
FetchResponsesFails(r) ==
  /\ Rejects
  /\ CanStart(r)
  /\ rq' = [rq EXCEPT ![r] = readFails("fetchResponses")]
  /\ UNCHANGED <<cursor, received, balance, tasks, nextTaskId, responses, changelog, now>>

\* ---- POST task-respond --------------------------------------------------
\* ensureUserExists: req.user is the caller's User row as read now.
ensureUserExists(bal, userId) == bal[userId]

\* task.acceptingNewResponses(callback): calls back with an error or without.
acceptingNewResponses == {"ok", "error"}

\* A faulty variant: the check never stops a response.
neverExhausted(answersLeft) == FALSE

\* task.answersLeft === 0
taskExhausted(answersLeft) == answersLeft = 0

\* task.user.update({balance: task.user.balance - task.cost})
ownerBalanceUpdate(ownerBalance, cost) == ownerBalance - cost

\* user.update({balance: user.balance + task.cost})
userBalanceUpdate(userBalance, cost) == userBalance + cost

\* task.update({answersLeft: task.answersLeft - 1})
answersLeftUpdate(answersLeft) == answersLeft - 1

\* The middlewares have run; the handler calls Task.findOne.
TaskRespond(r, u, id) ==
  /\ CanStart(r)
  /\ rq' = [rq EXCEPT ![r] =
       [NoReq EXCEPT !.kind = "respond", !.pc = "find", !.user = u,
                     !.task = id, !.uBal = ensureUserExists(balance, u)]]
  /\ UNCHANGED <<cursor, received, balance, tasks, nextTaskId, responses, changelog, now, faults>>

StartRespond(r) == \E u \in Users, id \in TaskIds : TaskRespond(r, u, id)

\* findOne resolves and its then runs: down to next(error), or to the three
\* update calls, which nothing waits on, and TaskResponse.create, which the
\* chain waits on.
FindDone(r) ==
  LET q == rq[r]
      task == tasks[q.task] IN
  /\ At(r, "respond", "find")
  /\ \/ \* no such task: task is null, task.answersLeft throws, unhandled
        /\ task.st # "live"
        /\ rq' = [rq EXCEPT ![r] = [q EXCEPT !.pc = "end"]]
     \/ /\ task.st = "live"
        /\ taskExhausted(task.al)
        /\ rq' = [rq EXCEPT ![r] =
             Replied([q EXCEPT !.pc = "end"], "TaskExhausted")]
     \/ /\ task.st = "live"
        /\ ~taskExhausted(task.al)
        /\ \E accepting \in acceptingNewResponses :
             IF accepting = "error"
               THEN rq' = [rq EXCEPT ![r] =
                      Replied([q EXCEPT !.pc = "end"], "NotAccepting")]
               ELSE rq' = [rq EXCEPT ![r] =
                      [q EXCEPT !.pc = "respCreate", !.gate = TRUE,
                                !.pend = {"ownerUpdate", "userUpdate",
                                          "taskUpdate"},
                                !.owner = task.owner, !.cost = task.cost,
                                !.al = task.al,
                                !.oBal = balance[task.owner],
                                !.bal = userBalanceUpdate(q.uBal, task.cost)]]
  /\ UNCHANGED <<cursor, received, balance, tasks, nextTaskId, responses, changelog, now, faults>>

\* findOne rejects: the chain has no catch.
FindFails(r) ==
  /\ Rejects
  /\ At(r, "respond", "find")
  /\ rq' = [rq EXCEPT ![r] = [@ EXCEPT !.pc = "end", !.failed = "find"]]
  /\ UNCHANGED <<cursor, received, balance, tasks, nextTaskId, responses, changelog, now>>

\* The store executes task.user.update, whenever it comes to it.
OwnerUpdateDone(r) ==
  /\ Pending(r, "respond", "ownerUpdate")
  /\ balance' = [balance EXCEPT ![rq[r].owner] =
                   ownerBalanceUpdate(rq[r].oBal, rq[r].cost)]
  /\ rq' = [rq EXCEPT ![r].pend = @ \ {"ownerUpdate"}]
  /\ UNCHANGED <<cursor, received, tasks, nextTaskId, responses, changelog, now, faults>>

\* The store executes user.update.
UserUpdateDone(r) ==
  /\ Pending(r, "respond", "userUpdate")
  /\ balance' = [balance EXCEPT ![rq[r].user] =
                   userBalanceUpdate(rq[r].uBal, rq[r].cost)]
  /\ rq' = [rq EXCEPT ![r].pend = @ \ {"userUpdate"}]
  /\ UNCHANGED <<cursor, received, tasks, nextTaskId, responses, changelog, now, faults>>

\* The store executes task.update: UPDATE ... WHERE id, no row if deleted.
TaskUpdateDone(r) ==
  /\ Pending(r, "respond", "taskUpdate")
  /\ tasks' = [tasks EXCEPT ![rq[r].task] =
                 IF @.st = "live"
                   THEN [@ EXCEPT !.al = answersLeftUpdate(rq[r].al)]
                   ELSE @]
  /\ rq' = [rq EXCEPT ![r].pend = @ \ {"taskUpdate"}]
  /\ UNCHANGED <<cursor, received, balance, nextTaskId, responses, changelog, now, faults>>

\* One of the three updates rejects: nothing waits on it.
UpdateFails(r) ==
  /\ Rejects
  /\ \E call \in {"ownerUpdate", "userUpdate", "taskUpdate"} :
       /\ Pending(r, "respond", call)
       /\ rq' = [rq EXCEPT ![r] =
            [@ EXCEPT !.pend = @ \ {call},
                      !.failed = IF @ = "-" THEN call ELSE @]]
  /\ UNCHANGED <<cursor, received, balance, tasks, nextTaskId, responses, changelog, now>>

\* TaskResponse.create resolves: bulkCreate is called.
RespCreateDone(r) ==
  /\ At(r, "respond", "respCreate")
  /\ responses' = responses \cup
       {[id |-> r, task |-> rq[r].task, user |-> rq[r].user,
         actions |-> FALSE]}
  /\ rq' = [rq EXCEPT ![r].pc = "bulk"]
  /\ UNCHANGED <<cursor, received, balance, tasks, nextTaskId, changelog, now, faults>>

\* It rejects: catch calls next(error) and the following then runs with
\* createdTaskResponse undefined: mapping a non-empty taskActionIds throws
\* (unhandled); an empty one goes on to bulkCreate([]).
RespCreateFails(r) ==
  /\ Rejects
  /\ At(r, "respond", "respCreate")
  /\ \E n \in ActionCounts :
       rq' = [rq EXCEPT ![r] =
         Replied([@ EXCEPT !.failed = "respCreate",
                           !.pc = IF n = 0 THEN "bulk" ELSE "end"],
                 "StorageError")]
  /\ UNCHANGED <<cursor, received, balance, tasks, nextTaskId, responses, changelog, now>>

\* bulkCreate resolves; its then calls createChangeLogPromise, which stamps
\* createdAt.
BulkCreateDone(r) ==
  /\ At(r, "respond", "bulk")
  /\ responses' = {IF x.id = r THEN [x EXCEPT !.actions = TRUE] ELSE x :
                     x \in responses}
  /\ \E t \in clockRead(now) :
       /\ now' = t
       /\ rq' = [rq EXCEPT ![r] = [@ EXCEPT !.pc = "log", !.ts = t]]
  /\ UNCHANGED <<cursor, received, balance, tasks, nextTaskId, changelog, faults>>

\* bulkCreate (of a non-empty array) rejects: catch calls next(error).
BulkCreateFails(r) ==
  /\ Rejects
  /\ At(r, "respond", "bulk")
  /\ rq[r].failed # "respCreate"
  /\ rq' = [rq EXCEPT ![r] =
       Replied([@ EXCEPT !.pc = "end", !.failed = "bulk"], "StorageError")]
  /\ UNCHANGED <<cursor, received, balance, tasks, nextTaskId, responses, changelog, now>>

\* The UPDATED change-log insert resolves: gcm.sendMessage is called.
RespondLogDone(r) ==
  /\ At(r, "respond", "log")
  /\ changelog' = createChangeLogPromise(changelog, rq[r].task, "UPDATED",
                                         rq[r].ts)
  /\ rq' = [rq EXCEPT ![r].pc = "notify"]
  /\ UNCHANGED <<cursor, received, balance, tasks, nextTaskId, responses, now, faults>>

\* It rejects, unhandled.
RespondLogFails(r) ==
  /\ Rejects
  /\ At(r, "respond", "log")
  /\ rq' = [rq EXCEPT ![r] = [@ EXCEPT !.pc = "end", !.failed = "log"]]
  /\ UNCHANGED <<cursor, received, balance, tasks, nextTaskId, responses, changelog, now>>

\* gcm.sendMessage calls back: res.json with user.balance.
RespondNotified(r) ==
  /\ At(r, "respond", "notify")
  /\ rq' = [rq EXCEPT ![r] = Replied([@ EXCEPT !.pc = "end"], "ok")]
  /\ UNCHANGED <<cursor, received, balance, tasks, nextTaskId, responses, changelog, now, faults>>

\* ---- the environment ----------------------------------------------------
\* The caller of a finished request goes away.
Retire(r) ==
  /\ Finished(rq[r])
  /\ rq' = [rq EXCEPT ![r] = Gone]
  /\ UNCHANGED <<cursor, received, balance, tasks, nextTaskId, responses, changelog, now, faults>>

\* A step of a handler over a store whose calls succeed.
Step(r) ==
  \/ StartCreate(r)
  \/ TaskCreateDone(r)
  \/ CreateLogDone(r)
  \/ CreateNotified(r)
  \/ StartDelete(r)
  \/ DestroyDone(r)
  \/ DeleteLogDone(r)
  \/ FetchTasks(r)
  \/ Sync(r)
  \/ FetchResponses(r)
  \/ StartRespond(r)
  \/ FindDone(r)
  \/ OwnerUpdateDone(r)
  \/ UserUpdateDone(r)
  \/ TaskUpdateDone(r)
  \/ RespCreateDone(r)
  \/ BulkCreateDone(r)
  \/ RespondLogDone(r)
  \/ RespondNotified(r)

\* A step in which the store rejects a call.
Fault(r) ==
  \/ TaskCreateFails(r)
  \/ CreateLogFails(r)
  \/ DestroyFails(r)
  \/ DeleteLogFails(r)
  \/ FetchTasksFails(r)
  \/ SyncFails(r)
  \/ FetchResponsesFails(r)
  \/ FindFails(r)
  \/ UpdateFails(r)
  \/ RespCreateFails(r)
  \/ BulkCreateFails(r)
  \/ RespondLogFails(r)

\* A step of task-respond alone.
RespondStep(r) ==
  \/ StartRespond(r)
  \/ FindDone(r)
  \/ OwnerUpdateDone(r)
  \/ UserUpdateDone(r)
  \/ TaskUpdateDone(r)
  \/ RespCreateDone(r)
  \/ BulkCreateDone(r)
  \/ RespondLogDone(r)
  \/ RespondNotified(r)

Next == \E r \in Clients : Retire(r) \/ Step(r)

FaultNext == \E r \in FaultClients : Retire(r) \/ Step(r) \/ Fault(r)

\* A step of a handler that writes the change log, or of the one that
\* reads it.
LogStep(r) ==
  \/ StartCreate(r)
  \/ TaskCreateDone(r)
  \/ CreateLogDone(r)
  \/ CreateNotified(r)
  \/ StartDelete(r)
  \/ DestroyDone(r)
  \/ DeleteLogDone(r)
  \/ Sync(r)

LogNext == \E r \in LogClients : Retire(r) \/ LogStep(r)

RaceNext == \E r \in Racers : Retire(r) \/ RespondStep(r)

StaleNext == \E r \in StaleClients : Retire(r) \/ RespondStep(r)

\* The store after one task-add of u1 (cost 1) has finished, its CREATED row
\* stamped with the clock's last value: the state Spec is in after
\* StartCreate, TaskCreateDone, CreateLogDone, CreateNotified and Retire, with
\* the request's slot free again.
RaceInit ==
  \E a \in 1..MaxAnswers :
    /\ balance = InitBalance
    /\ tasks = [t \in TaskIds |->
                  IF t = 1 THEN newTask("u1", 1, a) ELSE NoTask]
    /\ nextTaskId = 2
    /\ responses = {}
    /\ changelog = createChangeLogPromise(<<>>, 1, "CREATED", MaxTime)
    /\ now = MaxTime
    /\ faults = 0
    /\ rq = [r \in Reqs |-> NoReq]
    /\ cursor = 0
    /\ received = {}

\* The store after a task-add of u1 (cost 1, answersLeft MaxAnswers) and one
\* task-respond of u2, which found the task as created: its TaskResponse
\* row, its TaskActionResponses and its UPDATED row are stored, its caller
\* has the answer, the store has executed its two balance updates and has
\* yet to execute its task.update.  It is the state RaceSpec is in after
\* StartRespond, FindDone, RespCreateDone, BulkCreateDone, RespondLogDone,
\* RespondNotified, OwnerUpdateDone and UserUpdateDone of its first request.
StaleInit ==
  LET owner == "u1"
      user == "u2"
      task == newTask(owner, 1, MaxAnswers)
      oBal == InitBalance[owner]
      uBal == ensureUserExists(InitBalance, user) IN
  /\ balance = [InitBalance EXCEPT
                  ![owner] = ownerBalanceUpdate(oBal, task.cost),
                  ![user] = userBalanceUpdate(uBal, task.cost)]
  /\ tasks = [t \in TaskIds |-> IF t = 1 THEN task ELSE NoTask]
  /\ nextTaskId = 2
  /\ responses = {[id |-> 1, task |-> 1, user |-> user, actions |-> TRUE]}
  /\ changelog =
       createChangeLogPromise(
         createChangeLogPromise(<<>>, 1, "CREATED", MaxTime),
         1, "UPDATED", MaxTime)
  /\ now = MaxTime
  /\ faults = 0
  /\ rq = [r \in Reqs |->
            IF r = 1
              THEN Replied(
                     [NoReq EXCEPT
                        !.kind = "respond", !.pc = "end",
                        !.pend = {"taskUpdate"},
                        !.user = user, !.task = 1, !.uBal = uBal,
                        !.gate = TRUE, !.owner = owner, !.cost = task.cost,
                        !.al = task.al, !.oBal = oBal,
                        !.bal = userBalanceUpdate(uBal, task.cost),
                        !.ts = MaxTime],
                     "ok")
              ELSE NoReq]
  /\ cursor = 0
  /\ received = {}

\* task-add and task-respond requests served one after another: a request
\* arrives when the one before has been answered.
SeqNext ==
  \E r \in SeqClients :
    \/ Retire(r)
    \/ Idle /\ \E body \in ScenarioBodies : TaskAdd(r, body)
    \/ Idle /\ \E u \in ScenarioUsers, id \in TaskIds : TaskRespond(r, u, id)
    \/ TaskCreateDone(r)
    \/ CreateLogDone(r)
    \/ CreateNotified(r)
    \/ FindDone(r)
    \/ OwnerUpdateDone(r)
    \/ UserUpdateDone(r)
    \/ TaskUpdateDone(r)
    \/ RespCreateDone(r)
    \/ BulkCreateDone(r)
    \/ RespondLogDone(r)
    \/ RespondNotified(r)

\* The handlers and the polling client.
PollNext ==
  \/ Poll
  \/ \E r \in PollClients : Retire(r) \/ Step(r)

\* The handlers over a store whose calls all succeed.
Spec == Init /\ [][Next]_vars

\* The handlers over a store that may reject a call.
FaultSpec == Init /\ [][FaultNext]_vars

\* The handlers of the change log alone.
LogSpec == Init /\ [][LogNext]_vars

\* Concurrent task-respond requests on an existing task.
RaceSpec == RaceInit /\ [][RaceNext]_vars

\* The same, after a response whose updates are still to be executed.
StaleSpec == StaleInit /\ [][StaleNext]_vars

\* Requests received one after another, each once the last is answered.
SeqSpec == Init /\ [][SeqNext]_vars

\* The handlers with a client polling task-sync.
PollSpec == Init /\ [][PollNext]_vars

\* ---- the claims ---------------------------------------------------------
\* The TaskResponse rows of a task.
RowsOf(t) == {x \in responses : x.task = t}

\* The tasks that were created.
Created == {t \in TaskIds : tasks[t].st # "none"}

\* What the rows pay in all: each row its task's cost.
RECURSIVE Paid(_)
Paid(rows) ==
  IF rows = {} THEN 0
  ELSE LET x == CHOOSE y \in rows : TRUE
       IN tasks[x.task].cost + Paid(rows \ {x})

\* The positions of the change-log rows newer than since.
NewerAt(since) == newerAt(changelog, since)

Last(S) == CHOOSE i \in S : \A j \in S : j <= i

\* C1: a task created with answersLeft = k never has more than k responses
\* accepted, however the task-respond requests on it interleave.
C1_AtMostKResponses ==
  \A t \in Created : Cardinality(RowsOf(t)) <= tasks[t].al0

\* C2: once every request has run to its end, each accepted response has
\* taken the task's cost from the owner's balance and added it to the
\* responder's, no update lost (responses to one's own task left aside).
C2_EveryResponsePaid ==
  (Quiescent /\ \A x \in responses : x.user # tasks[x.task].owner)
    => \A u \in Users :
         balance[u] = InitBalance[u]
                        + Paid({x \in responses : x.user = u})
                        - Paid({x \in responses : tasks[x.task].owner = u})

\* C3: the answersLeft of a task is never negative, whatever task-add,
\* task-respond and task-delete requests have run and however they
\* interleaved.
C3_AnswersLeftNonNegative ==
  \A t \in TaskIds : tasks[t].st = "live" => tasks[t].al >= 0

\* C4: the answersLeft of a task never goes up.
C4_AnswersLeftNeverGrows ==
  [][\A t \in TaskIds :
       (tasks[t].st = "live" /\ tasks'[t].st = "live")
         => tasks'[t].al <= tasks[t].al]_vars

\* C5: when a task-respond request ends in a storage error, and it is the
\* only request that got to respond to anything, none of its effects is
\* there: no balance has moved, the task's answersLeft is as created and
\* there is no response row.
C5_FailedRespondLeavesNothing ==
  \A r \in Reqs :
    (/\ rq[r].kind = "respond" /\ Finished(rq[r])
     /\ rq[r].reply = "StorageError"
     /\ faults = 1
     /\ \A x \in Reqs \ {r} : rq[x].kind # "respond"
     /\ \A x \in responses : x.id = r)
    => /\ balance = InitBalance
       /\ responses = {}
       /\ \A t \in TaskIds : tasks[t].st = "live" => tasks[t].al = tasks[t].al0

\* C6: a task-respond request that finds its task with answersLeft = 0 is
\* answered TaskExhausted and is over, and nothing in the store has changed:
\* no balance, no task, no response row, no change-log row.
C6_ExhaustedRespondRejected ==
  [][\A r \in Reqs :
       (/\ At(r, "respond", "find")
        /\ tasks[rq[r].task].st = "live" /\ tasks[rq[r].task].al = 0
        /\ rq'[r] # rq[r])
       => /\ rq'[r].reply = "TaskExhausted" /\ rq'[r].replies = 1
          /\ Finished(rq'[r]) /\ ~rq'[r].gate
          /\ UNCHANGED <<balance, tasks, responses, changelog>>]_vars

\* C6's case: a task-respond request on a task whose answers were used up by
\* a response has been answered TaskExhausted.
C6_Witness ==
  \E r \in Reqs :
    /\ rq[r].kind = "respond" /\ Finished(rq[r])
    /\ rq[r].reply = "TaskExhausted"
    /\ tasks[rq[r].task].al0 > 0 /\ RowsOf(rq[r].task) # {}

\* C7: the changes a task-sync request is answered with are the (taskId,
\* status) of exactly the change-log rows created after since, and they are
\* listed by creation time, earliest first.
C7_SyncExactAndOrdered ==
  \A r \in Reqs :
    (rq[r].kind = "sync" /\ Finished(rq[r]) /\ rq[r].reply = "ok")
    => LET rows == changesSince(changelog, rq[r].since)
           got == rq[r].sync.changes IN
       /\ Len(got) = Cardinality(NewerAt(rq[r].since))
       /\ \A i \in 1..Len(rows) :
            /\ rows[i].createdAt > rq[r].since
            /\ got[i] = [taskId |-> rows[i].taskId, status |-> rows[i].status]
       /\ \A i, j \in 1..Len(rows) :
            i < j => rows[i].createdAt <= rows[j].createdAt

\* C8: the lastUpdated a task-sync request is answered with is the creation
\* time of the last row it returns, or 0 when no row is newer than since; so
\* a request answered with no changes is answered lastUpdated 0.
C8_LastUpdatedOrZero ==
  \A r \in Reqs :
    (rq[r].kind = "sync" /\ Finished(rq[r]) /\ rq[r].reply = "ok")
    => LET newer == NewerAt(rq[r].since) IN
       /\ newer # {} =>
            rq[r].sync.lastUpdated = changelog[Last(newer)].createdAt
       /\ newer = {} => rq[r].sync.lastUpdated = 0
       /\ rq[r].sync.changes = <<>> => rq[r].sync.lastUpdated = 0

\* C8's case: the log has rows, and a task-sync request that asked for the
\* rows after a time no row is newer than has been answered.
C8_Witness ==
  \E r \in Reqs :
    /\ rq[r].kind = "sync" /\ Finished(rq[r]) /\ rq[r].reply = "ok"
    /\ Len(changelog) > 0 /\ rq[r].since > 0
    /\ NewerAt(rq[r].since) = {}

\* C8 as the specification has it: lastUpdated is the creation time of the
\* newest row returned, or since itself when no row is newer; a sync from
\* the lastUpdated returned then finds nothing and returns it again.
C8_LastUpdatedOrSince ==
  \A r \in Reqs :
    (rq[r].kind = "sync" /\ Finished(rq[r]) /\ rq[r].reply = "ok")
    => LET newer == NewerAt(rq[r].since)
           lu == rq[r].sync.lastUpdated IN
       /\ newer # {} =>
            /\ lu = changelog[Last(newer)].createdAt
            /\ \A i \in newer : changelog[i].createdAt <= lu
       /\ newer = {} => lu = rq[r].since
       /\ syncReply(changelog, lu) = [lastUpdated |-> lu, changes |-> <<>>]

\* C9: once a task-delete request has been answered ok, task-fetch no longer
\* finds the task, and every task-sync from a time before the deletion
\* returns a DELETED entry for it.
C9_DeletedIsGoneAndLogged ==
  \A r \in Reqs :
    (rq[r].kind = "delete" /\ rq[r].reply = "ok" /\ rq[r].hit)
    => /\ findTasks(tasks, {rq[r].task}) = {}
       /\ \A since \in Times :
            since < rq[r].ts =>
              \E i \in 1..Len(syncReply(changelog, since).changes) :
                syncReply(changelog, since).changes[i] =
                  [taskId |-> rq[r].task, status |-> "DELETED"]

\* C10: the change log only grows at its end: a row, once in it, stays where
\* it is and as it is.
C10_AppendOnly ==
  [][/\ Len(changelog') >= Len(changelog)
     /\ \A i \in 1..Len(changelog) : changelog'[i] = changelog[i]]_vars

\* C10's case: the log holds the CREATED row of a task that has since been
\* deleted and, after it, the task's DELETED row.
C10_Witness ==
  \E i, j \in 1..Len(changelog) :
    /\ i < j
    /\ changelog[i].taskId = changelog[j].taskId
    /\ changelog[i].status = "CREATED"
    /\ changelog[j].status = "DELETED"
    /\ tasks[changelog[i].taskId].st = "deleted"

\* The DELETED rows the change log holds for a task.
DeletedRows(t) ==
  {i \in 1..Len(changelog) :
     changelog[i].taskId = t /\ changelog[i].status = "DELETED"}

\* C11: a task-delete of an id that has no task (never created, or deleted
\* before) appends nothing to the change log: the log holds a DELETED row
\* for a task only if the task was deleted, and then one.
C11_DeleteOfNothingLogsNothing ==
  \A t \in TaskIds :
    Cardinality(DeletedRows(t)) <= IF tasks[t].st = "deleted" THEN 1 ELSE 0

\* C12: a task-add is answered with a validation error, and nothing is
\* stored for it, exactly when its cost is not a positive number or its lat
\* or lng is not a number; a lat or lng of 0 passes.
C12_RejectsExactlyTheInvalid ==
  \A r \in Reqs :
    rq[r].kind = "create"
    => LET body == rq[r].body IN
       (Finished(rq[r]) /\ rq[r].reply = "ValidationError" /\ rq[r].task = 0)
         <=> \/ ~(body.cost.num /\ body.cost.val > 0)
             \/ ~body.lat.num
             \/ ~body.lng.num

C14_MissingTaskAnswered ==
  \A r \in Reqs :
    (/\ rq[r].kind = "respond" /\ Finished(rq[r])
     /\ ~rq[r].gate /\ rq[r].failed = "-"
     /\ tasks[rq[r].task].st # "live")
    => rq[r].reply = "NotFound" /\ rq[r].replies = 1

\* C15: served one after another, each received when the one before has
\* been answered, a task-add of cost 5 and answersLeft 2 and the responses
\* of two different users, neither the owner, (with no response to any
\* other task made or under way) leave, once nothing is left to run, the
\* task with answersLeft 0, the owner 10 poorer and each responder 5
\* richer; each response is answered with the responder's new balance, and
\* a further task-respond is answered TaskExhausted.
C15_TwoResponsesThenExhausted ==
  \A t \in TaskIds :
    LET rows == RowsOf(t)
        o == tasks[t].owner IN
    (/\ Quiescent
     /\ tasks[t].st = "live" /\ tasks[t].al0 = 2 /\ tasks[t].cost = 5
     /\ responses = rows
     /\ \A r \in Reqs : rq[r].kind = "respond" => rq[r].task = t
     /\ \E x, y \in rows :
          x.user # y.user /\ x.user # o /\ y.user # o)
    => /\ tasks[t].al = 0
       /\ Cardinality(rows) = 2
       /\ balance[o] = InitBalance[o] - 10
       /\ \A x \in rows : balance[x.user] = InitBalance[x.user] + 5
       /\ \A r \in Reqs :
            (rq[r].kind = "respond" /\ Finished(rq[r]))
            => IF \E x \in rows : x.id = r
                 THEN /\ rq[r].reply = "ok"
                      /\ rq[r].bal = balance[rq[r].user]
                 ELSE rq[r].reply = "TaskExhausted"

\* C16: the DELETED row of a task-delete is appended only once the task is
\* destroyed: never while the task still has its row, as when the destroy
\* was rejected.
C16_DeletedLoggedAfterDestroy ==
  [][\A r \in Reqs :
       (/\ Pending(r, "delete", "logDelete")
        /\ "logDelete" \notin rq'[r].pend
        /\ changelog' # changelog)
       => tasks[rq[r].task].st # "live"]_vars

\* C17: the UPDATED row of a task-respond is appended only once the response
\* is stored whole: its TaskResponse row with the TaskActionResponses, the
\* answersLeft decrement and both balance updates.
C17_UpdatedLoggedAfterEffects ==
  [][\A r \in Reqs :
       (/\ At(r, "respond", "log") /\ rq'[r].pc = "notify"
        /\ changelog' # changelog)
       => /\ rq[r].failed = "-"
          /\ rq[r].pend = {}
          /\ \E x \in responses : x.id = r /\ x.actions]_vars

\* C18: every request that is over was answered exactly once.
C18_ExactlyOneReply ==
  \A r \in Reqs : Finished(rq[r]) => rq[r].replies = 1

\* What the users own in all.
RECURSIVE Total(_, _)
Total(bal, users) ==
  IF users = {} THEN 0
  ELSE LET u == CHOOSE v \in users : TRUE
       IN bal[u] + Total(bal, users \ {u})

\* C19: whenever no request is being served, the users own in all what they
\* owned at the start.
C19_BalancesConserved ==
  Quiescent => Total(balance, ScenarioUsers) = Total(InitBalance, ScenarioUsers)

\* C20: the polling client misses nothing: when one of its polls is
\* answered, it has received every row that is in the change log by then.
C20_PollsSkipNothing ==
  [][(cursor' # cursor \/ received' # received)
       => \A i \in 1..Len(changelog) : i \in received']_vars
====
